---- MODULE Spec2Model ----
(***************************************************************************)
(* Batch import / conflict-resolution pipeline of the medical-waste        *)
(* record-keeping application.                                             *)
(*                                                                         *)
(* One import endpoint is exercised per behaviour (endpoint is fixed by    *)
(* Init); requests to it are served one after the other.  A request goes   *)
(* through the permission_required decorator, then through the view:       *)
(* top-level checks, one preloading read, validation and categorisation    *)
(* of all rows, and then the write phase, one database transaction per     *)
(* step.  The database may answer a write transaction with "database is    *)
(* locked"; lock_plan is the number of upcoming write transactions it      *)
(* will still refuse.                                                      *)
(*                                                                         *)
(* Values.  Raw cell values are the strings of the request body.  A        *)
(* stored nullable number is <<>> (NULL) or <<n>>.                         *)
(***************************************************************************)
EXTENDS Integers, Sequences, FiniteSets, TLC

\* ------------------------------------------------------------------ bounds
MaxRows == 2
MaxLocks == 3

\* ------------------------------------------------------- program constants
MIN_YEAR == 1970
MAX_YEAR == 9999
MIN_MONTH == 1
MAX_MONTH == 12

\* A faulty retry limit that outlasts every lock plan; the termination
\* property must tell it from the real one.
RetriesBeyondLocks == MaxLocks + 2

\* max_retries = 3 of the retry loops
max_retries == 3

GROUP_HIERARCHY ==
  [root |-> 40, moderator |-> 30, staff |-> 20, registrar |-> 10, importer |-> 10]

\* ------------------------------------------------------------ value helpers
None == <<>>
Some(n) == <<n>>

Max(S) == CHOOSE x \in S : \A y \in S : y <= x

SeqToSet(s) == {s[i] : i \in 1..Len(s)}

\* ------------------------------------------------------------ input universe
Endpoints == {"management", "department", "prediction", "transportation", "processor"}

\* The digit groups of the date strings that have the shape dddd-dd; any
\* other string (here "" only) has no digit groups.
DateDigits ==
  [d \in {"2024-01", "2024-02", "2024-13", "1969-01"} |->
     IF d = "2024-01" THEN <<2024, 1>>
     ELSE IF d = "2024-02" THEN <<2024, 2>>
     ELSE IF d = "2024-13" THEN <<2024, 13>>
     ELSE <<1969, 1>>]

DateInputs == {"2024-01", "2024-02", "2024-13"}

\* float(s) / int(s) of the numeric strings of the universe; every other
\* string raises ValueError.
NumberOf == [s \in {"5", "7", "-3"} |-> IF s = "5" THEN 5 ELSE IF s = "7" THEN 7 ELSE -3]

IsNumeric(s) == s \in DOMAIN NumberOf

\* A field value that the JSON body carries as a number, not as a string:
\* "#5" stands for the number 5.
IsJsonNumber(value) == value \in {"#5"}

\* str(value)
PyStr(value) == IF value = "#5" THEN "5" ELSE value

AmountInputs == {"5", "7", "-3", "abc"}

\* Request users: anonymous, or authenticated with a set of group names
\* ("guest" is a group outside GROUP_HIERARCHY).
Users ==
  {[is_authenticated |-> FALSE, groups |-> {}]} \cup
  {[is_authenticated |-> TRUE, groups |-> g] : g \in {{}, {"registrar"}, {"importer"}, {"guest"}}}

MonthlyRows == [date : DateInputs, amount : AmountInputs]

\* Department import: a row is a date and its department columns, in the
\* order of the submitted object.  "A" and "B" are active departments, "X"
\* is a column name that is no department.
DepartmentRows ==
  {[date |-> "2024-13", cols |-> <<<<"A", "5">>>>]} \cup
  {[date |-> "2024-01", cols |-> <<<<"A", a>>, c>>] :
     a \in {"", "5", "7"},
     c \in {<<"B", "">>, <<"B", "5">>, <<"B", "-3">>, <<"B", "abc">>, <<"X", "5">>}}

\* Hospital operational data: the date and one required integer column.
HospitalRows == [date : DateInputs, amount : AmountInputs \cup {""}]

\* Manifests: number, enterprise code, declaration date and declared weight;
\* waste code and process code are the same in every row.
ManifestRows ==
  [manifest_number : {"M1"}, enterprise_code : {"E1"}, declaration_date : {"d1", "d2"},
   weight : {"5", "7"}] \cup
  [manifest_number : {"M1"}, enterprise_code : {"E1"}, declaration_date : {"d1"},
   weight : {"-3", "abc"}] \cup
  [manifest_number : {"M2"}, enterprise_code : {"E2"}, declaration_date : {"d1"},
   weight : {"5"}] \cup
  [manifest_number : {"", "M1"}, enterprise_code : {""}, declaration_date : {"d1"},
   weight : {"5"}] \cup
  [manifest_number : {""}, enterprise_code : {"E1"}, declaration_date : {"d1"},
   weight : {"5"}]

\* DepartmentWasteConfiguration.get_department_mapping(): name -> id
dept_mapping == [n \in {"A", "B"} |-> IF n = "A" THEN 1 ELSE 2]

Batches(R) == UNION {[1..n -> R] : n \in 0..MaxRows}

\* ------------------------------------------------------------ pure functions
\* date_validators.validate_yyyy_mm_format: <<is_valid, error_message>>
validate_yyyy_mm_format(date_str) ==
  IF date_str = "" THEN <<FALSE, "EMPTY_DATE_MSG">>
  ELSE IF date_str \notin DOMAIN DateDigits
          \/ DateDigits[date_str][2] \notin 1..12
       THEN <<FALSE, "INVALID_FORMAT_MSG">>
  ELSE IF DateDigits[date_str][1] < MIN_YEAR \/ DateDigits[date_str][1] > MAX_YEAR
       THEN <<FALSE, "INVALID_YEAR_MSG">>
  ELSE IF DateDigits[date_str][2] < MIN_MONTH \/ DateDigits[date_str][2] > MAX_MONTH
       THEN <<FALSE, "INVALID_MONTH_MSG">>
  ELSE <<TRUE, "">>

\* permissions.get_permission_hi(user, id=True)
get_permission_hi(user) ==
  IF ~user.is_authenticated \/ user.groups = {} THEN 0
  ELSE Max({IF g \in DOMAIN GROUP_HIERARCHY THEN GROUP_HIERARCHY[g] ELSE 0 : g \in user.groups})

\* A faulty override rule that asks for staff level in every module, above
\* the level the decorators admit; the admitted-implies-override property
\* must tell it from the real one.
StaffOverridePermission(user, module_name) ==
  user.is_authenticated /\ get_permission_hi(user) >= GROUP_HIERARCHY["staff"]

\* permissions.has_override_permission(user, module_name)
has_override_permission(user, module_name) ==
  IF ~user.is_authenticated THEN FALSE
  ELSE IF module_name \in {"management", "prediction"}
       THEN get_permission_hi(user) >= GROUP_HIERARCHY["registrar"]
  ELSE IF module_name = "transportation"
       THEN get_permission_hi(user) >= GROUP_HIERARCHY["importer"]
  ELSE FALSE

\* the min_group of the endpoint's @permission_required decorator
MinGroup(ep) == IF ep = "transportation" THEN "importer" ELSE "registrar"

\* the module name the endpoint passes to has_override_permission
OverrideModule(ep) ==
  IF ep = "transportation" THEN "transportation"
  ELSE IF ep = "prediction" THEN "prediction"
  ELSE "management"

\* ------------------------------------------------------------------- state
VARIABLES
  endpoint,           \* the import endpoint this behaviour exercises
  pc,                 \* position of the request being served
  rows,               \* data["rows"] of the request
  override_conflicts, \* data["override_conflicts"]
  results,            \* the results dict of the view
  response,           \* the JsonResponse returned
  rows_to_create,     \* create bucket (rows_to_create / records_to_create)
  rows_to_update,     \* update bucket (rows_to_update / records_to_update)
  rows_to_process,    \* transportation: rows handed to the write loop
  cursor,             \* position of the write loop in its list
  retry_count,        \* retry_count of the current row's retry loop
  slept,              \* milliseconds slept before the coming attempt of the row (0: none)
  lock_plan,          \* number of upcoming write transactions the database refuses
  bulk_error,         \* how the bulk attempt of the current bucket ended
  cur,                \* the row the write phase handled last, with its attempts
  db,                 \* the committed tables
  db0,                \* db when the request started
  written,            \* records this request committed: [row, key, val, op]
  override_authorized,\* has_override_permission(...) as the view evaluated it
  lock_seen,          \* the request met a "database is locked" error
  enterprises,        \* transportation: per-call lookup dict of Enterprise objects
  rerun,              \* the request re-submits the previous body with override off
  first_ok,           \* (rerun only) the previous request wrote every row
  read_error          \* the storage raises on the preload read of this behaviour

vars == <<endpoint, pc, rows, override_conflicts, results, response, rows_to_create,
          rows_to_update, rows_to_process, cursor, retry_count, slept, lock_plan,
          bulk_error, cur, db, db0, written, override_authorized, lock_seen,
          enterprises, rerun, first_ok, read_error>>

bucketVars == <<rows_to_create, rows_to_update, rows_to_process>>
loopVars == <<cursor, retry_count, slept, lock_plan, bulk_error, cur, lock_seen>>
reqVars == <<endpoint, rows, override_conflicts, override_authorized, db0, rerun, first_ok,
            read_error>>

NoResponse == [sent |-> FALSE, success |-> FALSE, error |-> "", results |-> FALSE]
ErrorResponse(e) == [sent |-> TRUE, success |-> FALSE, error |-> e, results |-> FALSE]
NoResults == [total |-> 0, success |-> 0, failed |-> <<>>, conflicts |-> <<>>]
NoRow == [row |-> 0, log |-> <<>>, done |-> FALSE]

\* Every table is a set of records; the uniqueness constraints are enforced
\* by the insert operators below, as the storage engine enforces them.
EmptyDb ==
  [monthly |-> {}, waste_record |-> {}, hospital |-> {},
   manifest |-> {}, declaration |-> {}, enterprise |-> {}]

Init ==
  /\ endpoint \in Endpoints
  /\ pc = "idle"
  /\ rows = <<>>
  /\ override_conflicts = FALSE
  /\ results = NoResults
  /\ response = NoResponse
  /\ rows_to_create = <<>>
  /\ rows_to_update = <<>>
  /\ rows_to_process = <<>>
  /\ cursor = 0
  /\ retry_count = 0 /\ slept = 0
  /\ lock_plan = 0
  /\ bulk_error = "none"
  /\ cur = NoRow
  /\ db = EmptyDb
  /\ db0 = EmptyDb
  /\ written = {}
  /\ override_authorized = FALSE
  /\ lock_seen = FALSE
  /\ enterprises = {}
  /\ rerun = FALSE
  /\ first_ok = FALSE
  /\ read_error = FALSE

\* ---------------------------------------------------------- results helpers
\* A faulty append that loses the failure entry; the failure-reporting
\* properties must tell it from the real one.
AddFailedLost(res, index, reason) == res

\* results["failed"].append({"index": idx, "reason": reason, ...}); an entry
\* appended without an "index" key has index = None.
AddFailed(res, index, reason) ==
  [res EXCEPT !.failed = Append(@, [index |-> index, reason |-> reason])]

AddSuccess(res, n) == [res EXCEPT !.success = @ + n]

\* A faulty final response that also reports failure when rows failed;
\* the success-flag property must tell it from the real one.
ResultsResponseStrict(res, ov) ==
  IF (res.conflicts # <<>> /\ ~ov) \/ res.failed # <<>>
  THEN [sent |-> TRUE, success |-> FALSE, error |-> "conflict", results |-> TRUE]
  ELSE [sent |-> TRUE, success |-> TRUE, error |-> "", results |-> TRUE]

\* "Check if we have unresolved conflicts" and the final JsonResponse
ResultsResponse(res, ov) ==
  IF res.conflicts # <<>> /\ ~ov
  THEN [sent |-> TRUE, success |-> FALSE, error |-> "conflict", results |-> TRUE]
  ELSE [sent |-> TRUE, success |-> TRUE, error |-> "", results |-> TRUE]

\* ------------------------------------------------------------ table helpers
\* A faulty key lookup that sees no stored record, as if the uniqueness
\* constraint were absent; the no-duplicate property must tell it from
\* the real one.
KeysNone(table) == {}

\* Tables hold records [key, amount]; key is the natural key.
Keys(table) == {r.key : r \in table}

HasDuplicates(s) == \E i, j \in 1..Len(s) : i # j /\ s[i] = s[j]

BucketKeys(bucket) == [i \in 1..Len(bucket) |-> bucket[i].key]

\* model(**data): the stored record; the monthly tables have a total
\* column, which data carries as "total"
Record(data) ==
  IF "total" \in DOMAIN data
  THEN [key |-> data.key, amount |-> data.amount, total |-> data.total]
  ELSE [key |-> data.key, amount |-> data.amount]

\* "Auto-calculate total": (data.get(field) or 0) summed over the
\* constituent fields, here the one amount column
TotalOf(amount) == Some(IF amount = None THEN 0 ELSE amount[1])

\* the record the management views store in table tbl: data['total'] is set
\* before bulk_create, and Model.save() sets it in the per-row fallback
ModelRecord(tbl, data) ==
  IF tbl = "monthly"
  THEN Record([key |-> data.key, amount |-> data.amount, total |-> TotalOf(data.amount)])
  ELSE Record(data)

BucketRecords(tbl, bucket) == {ModelRecord(tbl, bucket[i]) : i \in 1..Len(bucket)}

Writes(bucket, op) ==
  {[row |-> bucket[i].row, key |-> bucket[i].key, val |-> bucket[i].amount, op |-> op] :
     i \in 1..Len(bucket)}

\* delay = 0.2 * (2 ** retry_count) of the hospital update loop, evaluated
\* after "retry_count += 1", in milliseconds
PredictionDelay(n) == 200 * (2 ^ n)

\* time.sleep(0.1 * retry_count) of the manifest write loop, evaluated after
\* "retry_count += 1", in milliseconds
TransportDelay(n) == 100 * n

\* the lock plan the database may have when a write unit starts
LockPlans == 0..MaxLocks

\* exception: an exception left the validate-and-categorise loop
EmptyBuckets ==
  [failed |-> <<>>, conflicts |-> <<>>, create |-> <<>>, update |-> <<>>, process |-> <<>>,
   enterprises |-> {}, exception |-> FALSE]

\* ------------------------------------------------- permission_required gate
\* The row universe of each endpoint's request body.
RowUniverse(ep) ==
  IF ep = "department" THEN DepartmentRows
  ELSE IF ep = "prediction" THEN HospitalRows
  ELSE IF ep = "transportation" THEN ManifestRows
  ELSE MonthlyRows

\* permissions.permission_required(min_group) around every import view.
PermissionRequired ==
  /\ pc = "idle" /\ endpoint # "processor"
  /\ \E user \in Users, body \in Batches(RowUniverse(endpoint)), ov \in BOOLEAN :
       IF ~user.is_authenticated
       THEN /\ response' = ErrorResponse("401")
            /\ pc' = "done"
            /\ UNCHANGED <<rows, override_conflicts>>
       ELSE IF get_permission_hi(user) < GROUP_HIERARCHY[MinGroup(endpoint)]
       THEN /\ response' = ErrorResponse("403")
            /\ pc' = "done"
            /\ UNCHANGED <<rows, override_conflicts>>
       ELSE /\ pc' = "admitted"
            /\ rows' = body
            /\ override_conflicts' = ov
            /\ UNCHANGED response
  /\ db0' = db
  /\ UNCHANGED <<endpoint, read_error, results, bucketVars, loopVars, db, written,
                 override_authorized, enterprises, rerun, first_ok>>

\* The group memberships has_override_permission reads inside the view: the
\* request is authenticated, the groups are queried again.
ViewUsers == {u \in Users : u.is_authenticated}

\* A faulty security check that denies nobody; the short-circuit property
\* must tell it from the real one.
OverrideNeverDenied(user, ov, module_name) == FALSE

\* "Security check: Verify override permission"
OverrideDenied(user, ov, module_name) == ov /\ ~has_override_permission(user, module_name)

\* Whether the preload of the view issues a query: filter(date__in=[]) asks
\* the database nothing; the manifest import always looks its codes up.
PreloadQueried(ep, rs) ==
  IF ep = "transportation" THEN TRUE
  ELSE IF ep = "prediction"
  THEN \E i \in 1..Len(rs) : rs[i].date \in DOMAIN DateDigits
                               /\ DateDigits[rs[i].date][1] \in 1..9999
                               /\ DateDigits[rs[i].date][2] \in 1..12
  ELSE \E i \in 1..Len(rs) : rs[i].date # ""

\* The top of every import view: the checks that return a bare error, then
\* the preload and the validate-and-categorise pass c over the rows; an
\* exception of the preload, or one that leaves the loop over the rows,
\* reaches the view's "except Exception".
StartView(ep, c) ==
  /\ pc = "admitted" /\ endpoint = ep
  /\ \E user \in ViewUsers :
       IF rows = <<>>
       THEN /\ response' = ErrorResponse("missing_parameters")
            /\ pc' = "done"
            /\ UNCHANGED <<results, bucketVars, override_authorized, enterprises>>
       ELSE IF OverrideDenied(user, override_conflicts, OverrideModule(ep))
       THEN /\ response' = ErrorResponse("no_override_permission")
            /\ pc' = "done"
            /\ override_authorized' = FALSE
            /\ UNCHANGED <<results, bucketVars, enterprises>>
       ELSE IF (read_error /\ PreloadQueried(ep, rows)) \/ c.exception
       THEN /\ response' = ErrorResponse("server_error")
            /\ pc' = "done"
            /\ override_authorized' =
                 (override_conflicts /\ has_override_permission(user, OverrideModule(ep)))
            /\ UNCHANGED <<results, bucketVars, enterprises>>
       ELSE /\ results' = [total |-> Len(rows), success |-> 0,
                           failed |-> c.failed, conflicts |-> c.conflicts]
            /\ rows_to_create' = c.create
            /\ rows_to_update' = c.update
            /\ rows_to_process' = c.process
            /\ enterprises' = c.enterprises
            /\ override_authorized' =
                 (override_conflicts /\ has_override_permission(user, OverrideModule(ep)))
            /\ pc' = "create"
            /\ UNCHANGED response
  /\ UNCHANGED <<endpoint, read_error, rows, override_conflicts, loopVars, db, db0, written,
                 rerun, first_ok>>

\* ------------------------------------------- WasteManagement.views.batch_import
\* A faulty preload that finds nothing; the idempotence property must
\* tell it from the real one.
ExistingDatesNone(table, all_dates) == {}

\* existing_dates: model.objects.filter(date__in=all_dates).values_list('date')
ExistingDates(table, all_dates) == Keys(table) \cap all_dates

\* the validate-and-categorise loop over enumerate(rows)
MgmtCategorize(rs, existing_dates, ov) ==
  LET F[i \in 0..Len(rs)] ==
        IF i = 0 THEN EmptyBuckets
        ELSE LET acc == F[i - 1]
                 row == rs[i]
                 idx == i - 1
                 v == validate_yyyy_mm_format(row.date)
                 has_conflict == row.date \in existing_dates
                 value == PyStr(row.amount)
             IN IF ~v[1]
                THEN [acc EXCEPT !.failed = Append(@, [index |-> Some(idx), reason |-> v[2]])]
                ELSE IF has_conflict /\ ~ov
                THEN [acc EXCEPT !.conflicts = Append(@, [index |-> idx])]
                ELSE IF value # "" /\ ~IsNumeric(value)
                THEN [acc EXCEPT !.failed =
                        Append(@, [index |-> Some(idx), reason |-> "field_format"])]
                ELSE LET record_data ==
                           [idx |-> idx, row |-> idx, key |-> row.date,
                            amount |-> IF value = "" THEN None ELSE Some(NumberOf[value])]
                     IN IF has_conflict /\ ov
                        THEN [acc EXCEPT !.update = Append(@, record_data)]
                        ELSE [acc EXCEPT !.create = Append(@, record_data)]
  IN F[Len(rs)]

MgmtBatchImport ==
  StartView("management",
            MgmtCategorize(rows,
                           ExistingDates(db.monthly,
                                         {rows[i].date : i \in 1..Len(rows)} \ {""}),
                           override_conflicts))

\* "if <create bucket>:" with the bulk_create inside transaction.atomic();
\* an exception sends the bucket to the per-row fallback loop.
BulkCreate(ep, tbl) ==
  /\ pc = "create" /\ endpoint = ep
  /\ IF rows_to_create = <<>>
     THEN /\ pc' = "update"
          /\ UNCHANGED <<results, db, written, loopVars>>
     ELSE \E plan \in LockPlans :
          LET keys == BucketKeys(rows_to_create)
              integrity_error ==
                HasDuplicates(keys) \/ SeqToSet(keys) \cap Keys(db[tbl]) # {}
              last == rows_to_create[Len(rows_to_create)]
          IN IF plan > 0 \/ integrity_error
             THEN /\ pc' = "fallback_create"
                  /\ cursor' = 1
                  /\ lock_plan' = IF plan > 0 THEN plan - 1 ELSE 0
                  /\ bulk_error' = IF plan > 0 THEN "locked" ELSE "error"
                  /\ lock_seen' = (lock_seen \/ plan > 0)
                  /\ UNCHANGED <<results, db, written, retry_count, slept, cur>>
             ELSE /\ db' = [db EXCEPT ![tbl] = @ \cup BucketRecords(tbl, rows_to_create)]
                  /\ results' = AddSuccess(results, Len(rows_to_create))
                  /\ written' = written \cup Writes(rows_to_create, "create")
                  /\ cur' = [row |-> last.row, log |-> <<"ok">>, done |-> TRUE]
                  /\ pc' = "update"
                  /\ UNCHANGED <<cursor, retry_count, slept, lock_plan, bulk_error, lock_seen>>
  /\ UNCHANGED <<reqVars, response, bucketVars, enterprises>>

\* one iteration of the "Fallback to individual creates" loop; its failure
\* entries carry a reason and no index
FallbackCreate(ep, tbl) ==
  /\ pc = "fallback_create" /\ endpoint = ep
  /\ LET data == rows_to_create[cursor]
         locked == lock_plan > 0
         integrity_error == data.key \in Keys(db[tbl])
         outcome == IF locked THEN "locked" ELSE IF integrity_error THEN "error" ELSE "ok"
     IN /\ IF outcome = "ok"
           THEN /\ db' = [db EXCEPT ![tbl] = @ \cup {ModelRecord(tbl, data)}]
                /\ results' = AddSuccess(results, 1)
                /\ written' = written \cup Writes(<<data>>, "create")
           ELSE /\ results' = AddFailed(results, None,
                                        IF locked THEN "create_failed_locked"
                                        ELSE "create_failed")
                /\ UNCHANGED <<db, written>>
        /\ cur' = [row |-> data.row, log |-> <<bulk_error, outcome>>, done |-> TRUE]
        /\ lock_plan' = IF locked THEN lock_plan - 1 ELSE 0
        /\ lock_seen' = (lock_seen \/ locked)
  /\ IF cursor = Len(rows_to_create)
     THEN pc' = "update" /\ cursor' = 0
     ELSE pc' = pc /\ cursor' = cursor + 1
  /\ UNCHANGED <<reqVars, response, bucketVars, retry_count, slept, bulk_error, enterprises>>

\* "if <update bucket>:" with delete + bulk_create inside transaction.atomic()
BulkUpdate(ep, tbl) ==
  /\ pc = "update" /\ endpoint = ep
  /\ IF rows_to_update = <<>>
     THEN /\ pc' = "finish"
          /\ UNCHANGED <<results, db, written, loopVars>>
     ELSE \E plan \in LockPlans :
          LET keys == BucketKeys(rows_to_update)
              kept == {r \in db[tbl] : r.key \notin SeqToSet(keys)}
              integrity_error == HasDuplicates(keys)
              last == rows_to_update[Len(rows_to_update)]
          IN IF plan > 0 \/ integrity_error
             THEN /\ pc' = "fallback_update"
                  /\ cursor' = 1
                  /\ lock_plan' = IF plan > 0 THEN plan - 1 ELSE 0
                  /\ bulk_error' = IF plan > 0 THEN "locked" ELSE "error"
                  /\ lock_seen' = (lock_seen \/ plan > 0)
                  /\ UNCHANGED <<results, db, written, retry_count, slept, cur>>
             ELSE /\ db' = [db EXCEPT ![tbl] = kept \cup BucketRecords(tbl, rows_to_update)]
                  /\ results' = AddSuccess(results, Len(rows_to_update))
                  /\ written' = written \cup Writes(rows_to_update, "update")
                  /\ cur' = [row |-> last.row, log |-> <<"ok">>, done |-> TRUE]
                  /\ pc' = "finish"
                  /\ UNCHANGED <<cursor, retry_count, slept, lock_plan, bulk_error, lock_seen>>
  /\ UNCHANGED <<reqVars, response, bucketVars, enterprises>>

\* one iteration of the "Fallback to individual updates" loop: delete and
\* create in one transaction.atomic(); with_index says whether the failure
\* entry carries the row index
FallbackUpdate(ep, tbl, with_index) ==
  /\ pc = "fallback_update" /\ endpoint = ep
  /\ LET data == rows_to_update[cursor]
         locked == lock_plan > 0
         outcome == IF locked THEN "locked" ELSE "ok"
     IN /\ IF outcome = "ok"
           THEN /\ db' = [db EXCEPT ![tbl] =
                            {r \in @ : r.key # data.key} \cup {ModelRecord(tbl, data)}]
                /\ results' = AddSuccess(results, 1)
                /\ written' = written \cup Writes(<<data>>, "update")
           ELSE /\ results' = AddFailed(results,
                                        IF with_index THEN Some(data.idx) ELSE None,
                                        "update_failed_locked")
                /\ UNCHANGED <<db, written>>
        /\ cur' = [row |-> data.row, log |-> <<bulk_error, outcome>>, done |-> TRUE]
        /\ lock_plan' = IF locked THEN lock_plan - 1 ELSE 0
        /\ lock_seen' = (lock_seen \/ locked)
  /\ IF cursor = Len(rows_to_update)
     THEN pc' = "finish" /\ cursor' = 0
     ELSE pc' = pc /\ cursor' = cursor + 1
  /\ UNCHANGED <<reqVars, response, bucketVars, retry_count, slept, bulk_error, enterprises>>

MgmtBulkCreate == BulkCreate("management", "monthly")
MgmtFallbackCreate == FallbackCreate("management", "monthly")
MgmtBulkUpdate == BulkUpdate("management", "monthly")
MgmtFallbackUpdate == FallbackUpdate("management", "monthly", TRUE)

\* ------------------------------ WasteManagement.views.batch_import_departments
\* conflict_map.get((date, department_id)): the stored amount, None when the
\* map has no such key
ConflictMapGet(conflict_map, key) ==
  IF \E r \in conflict_map : r.key = key
  THEN (CHOOSE r \in conflict_map : r.key = key).amount
  ELSE None

\* WasteRecord.objects.filter(date__in=all_dates, waste_type=...).values(...)
DeptConflictMap(table, all_dates) == {r \in table : r.key[1] \in all_dates}

\* the inner loop "for dept_name, amount_str in row.items()" of one row
DeptColumns(row, idx, conflict_map, ov) ==
  LET G[j \in 0..Len(row.cols)] ==
        IF j = 0 THEN [failed |-> <<>>, row_conflicts |-> <<>>, row_operations |-> <<>>,
                       exception |-> FALSE]
        ELSE LET acc == G[j - 1]
                 dept_name == row.cols[j][1]
                 amount_str == row.cols[j][2]
             IN IF acc.exception \/ amount_str = "" THEN acc
                ELSE IF IsJsonNumber(amount_str)   \* amount_str.strip(): AttributeError
                THEN [acc EXCEPT !.exception = TRUE]
                ELSE IF dept_name \notin DOMAIN dept_mapping
                THEN [acc EXCEPT !.failed =
                        Append(@, [index |-> Some(idx), reason |-> "unknown_department"])]
                ELSE IF ~IsNumeric(amount_str)
                THEN [acc EXCEPT !.failed =
                        Append(@, [index |-> Some(idx), reason |-> "amount_format"])]
                ELSE IF NumberOf[amount_str] < 0
                THEN [acc EXCEPT !.failed =
                        Append(@, [index |-> Some(idx), reason |-> "amount_negative"])]
                ELSE LET department_id == dept_mapping[dept_name]
                         conflict_key == <<row.date, department_id>>
                         existing_amount == ConflictMapGet(conflict_map, conflict_key)
                     IN IF existing_amount # None /\ ~ov
                        THEN [acc EXCEPT !.row_conflicts = Append(@, conflict_key)]
                        ELSE [acc EXCEPT !.row_operations =
                                Append(@, [idx |-> idx, row |-> idx, key |-> conflict_key,
                                           amount |-> Some(NumberOf[amount_str]),
                                           exists |-> existing_amount # None])]
  IN G[Len(row.cols)]

Creates(ops) == SelectSeq(ops, LAMBDA op : ~op.exists)
Updates(ops) == SelectSeq(ops, LAMBDA op : op.exists)

\* the outer loop over enumerate(rows)
DeptCategorize(rs, conflict_map, ov) ==
  LET F[i \in 0..Len(rs)] ==
        IF i = 0 THEN EmptyBuckets
        ELSE LET acc == F[i - 1]
                 row == rs[i]
                 idx == i - 1
                 v == validate_yyyy_mm_format(row.date)
                 c == DeptColumns(row, idx, conflict_map, ov)
             IN IF acc.exception THEN acc
                ELSE IF ~v[1]
                THEN [acc EXCEPT !.failed = Append(@, [index |-> Some(idx), reason |-> v[2]])]
                ELSE IF c.exception
                THEN [acc EXCEPT !.failed = @ \o c.failed, !.exception = TRUE]
                ELSE IF c.row_conflicts # <<>>
                THEN [acc EXCEPT !.failed = @ \o c.failed,
                                 !.conflicts = Append(@, [index |-> idx])]
                ELSE [acc EXCEPT !.failed = @ \o c.failed,
                                 !.create = @ \o Creates(c.row_operations),
                                 !.update = @ \o Updates(c.row_operations)]
  IN F[Len(rs)]

DeptBatchImport ==
  StartView("department",
            DeptCategorize(rows,
                           DeptConflictMap(db.waste_record,
                                           {rows[i].date : i \in 1..Len(rows)} \ {""}),
                           override_conflicts))

DeptBulkCreate == BulkCreate("department", "waste_record")
DeptFallbackCreate == FallbackCreate("department", "waste_record")
DeptBulkUpdate == BulkUpdate("department", "waste_record")
DeptFallbackUpdate == FallbackUpdate("department", "waste_record", FALSE)

\* WasteManagement.views.save_department_data: the single-record form of the
\* same table (update_or_create); a blank amount is stored as NULL.
SaveDepartmentData ==
  /\ pc = "idle" /\ endpoint = "department"
  /\ \E department_id \in {1, 2}, amount \in {"", "5", "-3"} :
       LET key == <<"2024-01", department_id>>
           value == IF amount = "" THEN None ELSE Some(NumberOf[amount])
       IN IF amount # "" /\ NumberOf[amount] < 0
          THEN UNCHANGED db
          ELSE db' = [db EXCEPT !.waste_record =
                        {r \in @ : r.key # key} \cup {[key |-> key, amount |-> value]}]
  /\ db0' = db'
  /\ UNCHANGED <<endpoint, read_error, pc, rows, override_conflicts, results, response, bucketVars,
                 loopVars, written, override_authorized, enterprises, rerun, first_ok>>

\* ------------------------------------------- WastePrediction.views.batch_import
\* MedicalWasteManagementSystem.utils.validate_date_format: strptime("%Y-%m")
validate_date_format(date_str) ==
  /\ date_str \in DOMAIN DateDigits
  /\ DateDigits[date_str][1] \in 1..9999
  /\ DateDigits[date_str][2] \in 1..12

\* the invalid-date pass followed by the grouping loop over enumerate(rows)
HospCategorize(rs, existing_dates, ov) ==
  LET Invalid[i \in 0..Len(rs)] ==
        IF i = 0 THEN <<>>
        ELSE IF ~validate_date_format(rs[i].date)
             THEN Append(Invalid[i - 1], [index |-> Some(i - 1), reason |-> "date_invalid"])
             ELSE Invalid[i - 1]
      F[i \in 0..Len(rs)] ==
        IF i = 0 THEN [EmptyBuckets EXCEPT !.failed = Invalid[Len(rs)]]
        ELSE LET acc == F[i - 1]
                 row == rs[i]
                 idx == i - 1
                 entry == [idx |-> idx, row |-> idx, key |-> row.date, amount |-> row.amount]
             IN IF acc.exception \/ ~validate_date_format(row.date) THEN acc
                ELSE IF IsJsonNumber(row.amount)   \* value.strip(): AttributeError
                THEN [acc EXCEPT !.exception = TRUE]
                ELSE IF row.amount = ""
                THEN [acc EXCEPT !.failed =
                        Append(@, [index |-> Some(idx), reason |-> "required_field_empty"])]
                ELSE IF row.date \in existing_dates
                THEN IF ov
                     THEN [acc EXCEPT !.update = Append(@, entry)]
                     ELSE [acc EXCEPT !.conflicts = Append(@, [index |-> idx])]
                ELSE [acc EXCEPT !.create = Append(@, entry)]
  IN F[Len(rs)]

HospBatchImport ==
  StartView("prediction",
            HospCategorize(rows,
                           ExistingDates(db.hospital,
                                         {rows[i].date :
                                            i \in {j \in 1..Len(rows) :
                                                     validate_date_format(rows[j].date)}}),
                           override_conflicts))

\* the field conversion of BatchProcessor.process_batch_create: a value
\* that does not convert is stored as NULL
ConvertOrNone(value) ==
  IF value = "" THEN None
  ELSE IF IsNumeric(value) THEN Some(NumberOf[value])
  ELSE None

\* A faulty upsert that inserts the rows whose key is free and skips the
\* others, so that a record committed first stays; the stored-record
\* property must tell it from the real one.
UpsertKeepsFirst(table, bucket) ==
  LET U[i \in 0..Len(bucket)] ==
        IF i = 0 THEN table
        ELSE IF bucket[i].key \in {r.key : r \in U[i - 1]} THEN U[i - 1]
        ELSE U[i - 1] \cup
             {[key |-> bucket[i].key, amount |-> ConvertOrNone(bucket[i].amount)]}
  IN U[Len(bucket)]

\* bulk_create(update_conflicts=True, unique_fields=['date']): rows are
\* upserted in order
Upsert(table, bucket) ==
  LET U[i \in 0..Len(bucket)] ==
        IF i = 0 THEN table
        ELSE {r \in U[i - 1] : r.key # bucket[i].key} \cup
             {[key |-> bucket[i].key, amount |-> ConvertOrNone(bucket[i].amount)]}
  IN U[Len(bucket)]

\* BatchProcessor.process_batch_create(HospitalOperationalData, rows, True):
\* one transaction; any exception is logged and counted as zero
HospProcessBatchCreate ==
  /\ pc = "create" /\ endpoint = "prediction"
  /\ IF rows_to_create = <<>>
     THEN UNCHANGED <<results, db, written, cur, lock_seen>>
     ELSE \E plan \in LockPlans :
          LET last == rows_to_create[Len(rows_to_create)]
          IN IF plan > 0
             THEN /\ cur' = [row |-> last.row, log |-> <<"locked">>, done |-> TRUE]
                  /\ lock_seen' = TRUE
                  /\ UNCHANGED <<results, db, written>>
             ELSE /\ db' = [db EXCEPT !.hospital = Upsert(@, rows_to_create)]
                  /\ results' = AddSuccess(results, Len(rows_to_create))
                  /\ written' = written \cup
                       {[row |-> rows_to_create[i].row, key |-> rows_to_create[i].key,
                         val |-> ConvertOrNone(rows_to_create[i].amount),
                         op |-> IF rows_to_create[i].key \in
                                     Keys(db.hospital) \cup
                                     {rows_to_create[j].key : j \in 1..(i - 1)}
                                THEN "update" ELSE "create"] :
                          i \in 1..Len(rows_to_create)}
                  /\ cur' = [row |-> last.row, log |-> <<"ok">>, done |-> TRUE]
                  /\ UNCHANGED lock_seen
  /\ pc' = "update"
  /\ UNCHANGED <<reqVars, response, bucketVars, cursor, retry_count, slept, lock_plan, bulk_error,
                 enterprises>>

\* WastePrediction.views.validate_and_convert_fields for the integer column
validate_and_convert_fields(row_data) ==
  IF row_data.amount = "" THEN [error |-> "", amount |-> None]
  ELSE IF ~IsNumeric(row_data.amount) THEN [error |-> "invalid_number", amount |-> None]
  ELSE IF NumberOf[row_data.amount] < 0
       THEN [error |-> "not_a_non_negative_integer", amount |-> None]
  ELSE [error |-> "", amount |-> Some(NumberOf[row_data.amount])]

\* A faulty attempt log that is never reset between rows, so that attempts
\* made after an error show up in the log of the failed row; the
\* no-retry property must tell it from the real one.
FreshStale(entry) == cur

\* the cur record a row's first attempt starts from
Fresh(entry) == IF retry_count = 0 THEN [row |-> entry.row, log |-> <<>>, done |-> FALSE] ELSE cur

\* process_batch_update, one pass of the retry loop of one row up to the
\* end of its first transaction (the delete); cursor counts finished rows
HospUpdateDelete ==
  /\ pc = "update" /\ endpoint = "prediction"
  /\ IF cursor = Len(rows_to_update)
     THEN /\ pc' = "finish"
          /\ UNCHANGED <<results, db, loopVars>>
     ELSE LET entry == rows_to_update[cursor + 1]
              validated_data == validate_and_convert_fields(entry)
          IN IF validated_data.error # ""
             THEN /\ results' = AddFailed(results, Some(entry.idx), validated_data.error)
                  /\ cursor' = cursor + 1
                  /\ cur' = [row |-> entry.row, log |-> <<>>, done |-> TRUE]
                  /\ UNCHANGED <<pc, db, retry_count, slept, lock_plan, bulk_error, lock_seen>>
             ELSE \E plan \in (IF retry_count = 0 THEN LockPlans ELSE {lock_plan}) :
                  IF plan > 0
                  THEN /\ LET c == Fresh(entry)
                          IN /\ lock_seen' = TRUE
                             /\ lock_plan' = plan - 1
                             /\ IF retry_count < max_retries - 1
                                THEN /\ retry_count' = retry_count + 1
                                     /\ slept' = PredictionDelay(retry_count')
                                     /\ cur' = [c EXCEPT !.log = Append(@, "locked")]
                                     /\ UNCHANGED <<results, cursor>>
                                ELSE /\ results' = AddFailed(results, Some(entry.idx),
                                                             "database_locked")
                                     /\ cur' = [c EXCEPT !.log = Append(@, "locked"),
                                                         !.done = TRUE]
                                     /\ retry_count' = 0 /\ slept' = 0
                                     /\ cursor' = cursor + 1
                       /\ UNCHANGED <<pc, db, bulk_error>>
                  ELSE /\ db' = [db EXCEPT !.hospital = {r \in @ : r.key # entry.key}]
                       /\ cur' = Fresh(entry)
                       /\ lock_plan' = 0
                       /\ pc' = "update_create"
                       /\ UNCHANGED <<results, cursor, retry_count, slept, bulk_error, lock_seen>>
  /\ UNCHANGED <<reqVars, response, bucketVars, written, enterprises>>

\* the second transaction of the pass (the create); the write lock was
\* released by the delete's commit, so the database may be locked again
HospUpdateCreate ==
  /\ pc = "update_create" /\ endpoint = "prediction"
  /\ LET entry == rows_to_update[cursor + 1]
         validated_data == validate_and_convert_fields(entry)
     IN \E plan \in LockPlans :
          IF plan > 0
          THEN /\ lock_seen' = TRUE
               /\ lock_plan' = plan - 1
               /\ IF retry_count < max_retries - 1
                  THEN /\ retry_count' = retry_count + 1
                       /\ slept' = PredictionDelay(retry_count')
                       /\ cur' = [cur EXCEPT !.log = Append(@, "locked")]
                       /\ UNCHANGED <<results, cursor>>
                  ELSE /\ results' = AddFailed(results, Some(entry.idx), "database_locked")
                       /\ cur' = [cur EXCEPT !.log = Append(@, "locked"), !.done = TRUE]
                       /\ retry_count' = 0 /\ slept' = 0
                       /\ cursor' = cursor + 1
               /\ UNCHANGED <<db, written>>
          ELSE IF entry.key \in Keys(db.hospital)
          THEN /\ results' = AddFailed(results, Some(entry.idx), "update_error")
               /\ cur' = [cur EXCEPT !.log = Append(@, "error"), !.done = TRUE]
               /\ retry_count' = 0 /\ slept' = 0
               /\ cursor' = cursor + 1
               /\ lock_plan' = 0
               /\ UNCHANGED <<db, written, lock_seen>>
          ELSE /\ db' = [db EXCEPT !.hospital =
                           @ \cup {[key |-> entry.key, amount |-> validated_data.amount]}]
               /\ results' = AddSuccess(results, 1)
               /\ written' = written \cup
                    {[row |-> entry.row, key |-> entry.key,
                      val |-> validated_data.amount, op |-> "update"]}
               /\ cur' = [cur EXCEPT !.log = Append(@, "ok"), !.done = TRUE]
               /\ retry_count' = 0 /\ slept' = 0
               /\ cursor' = cursor + 1
               /\ lock_plan' = 0
               /\ UNCHANGED lock_seen
  /\ pc' = "update"
  /\ UNCHANGED <<reqVars, response, bucketVars, bulk_error, enterprises>>

\* --------------------------------------- WasteTransportation.views.batch_import
DeclarationCode(row) == <<row.manifest_number, row.enterprise_code, row.declaration_date>>

\* STEP 1-3: the lookup preload, the conflict map and the categorisation
TransportCategorize(rs, database, ov) ==
  LET conflict_map == Keys(database.manifest) \cap {rs[i].manifest_number : i \in 1..Len(rs)}
      F[i \in 0..Len(rs)] ==
        IF i = 0
        THEN [EmptyBuckets EXCEPT !.enterprises =
                database.enterprise \cap ({rs[j].enterprise_code : j \in 1..Len(rs)} \ {""})]
        ELSE LET acc == F[i - 1]
                 row == rs[i]
                 idx == i - 1
                 has_conflict == row.manifest_number \in conflict_map
             IN IF row.manifest_number = ""
                THEN [acc EXCEPT !.failed =
                        Append(@, [index |-> Some(idx), reason |-> "missing_manifest_number"])]
                ELSE IF has_conflict /\ ~ov
                THEN [acc EXCEPT !.conflicts = Append(@, [index |-> idx])]
                ELSE [acc EXCEPT !.process =
                        Append(@, [idx |-> idx, row |-> idx, key |-> row.manifest_number,
                                   data |-> row])]
  IN F[Len(rs)]

TransportBatchImport ==
  StartView("transportation", TransportCategorize(rows, db, override_conflicts))

\* create_manifest_from_row_optimized inside one transaction.atomic(): the
\* outcome and the tables it commits.  The lookup dict keeps an enterprise
\* it was given even when the transaction that inserted it is rolled back.
CreateManifest(database, dict, row, ov) ==
  LET code == row.enterprise_code
      decl == DeclarationCode(row)
      ent_table == IF code \in dict THEN database.enterprise
                   ELSE database.enterprise \cup {code}
      decl_exists == decl \in Keys(database.declaration)
      decl_table == IF decl_exists THEN database.declaration
                    ELSE database.declaration \cup
                         {[key |-> decl, amount |-> Some(NumberOf[row.weight])]}
      fk_error == ~decl_exists /\ code \notin ent_table
      exists == row.manifest_number \in Keys(database.manifest)
      manifest_table ==
        {m \in database.manifest : m.key # row.manifest_number} \cup
        {[key |-> row.manifest_number, declaration |-> decl]}
  IN IF ~IsNumeric(row.weight) THEN [error |-> "value_error", db |-> database, dict |-> dict]
     ELSE IF row.manifest_number = "" \/ code = ""
     THEN [error |-> "missing_fields", db |-> database, dict |-> dict]
     ELSE IF exists /\ ~ov
     THEN [error |-> "already_exists", db |-> database, dict |-> dict \cup {code}]
     ELSE IF fk_error
     THEN [error |-> "integrity_error", db |-> database, dict |-> dict \cup {code}]
     ELSE [error |-> "",
           db |-> [database EXCEPT !.enterprise = ent_table, !.declaration = decl_table,
                                   !.manifest = manifest_table],
           dict |-> dict \cup {code}]

\* STEP 4: one pass of the retry loop of one row; cursor counts finished rows
TransportAttempt ==
  /\ pc = "create" /\ endpoint = "transportation"
  /\ IF cursor = Len(rows_to_process)
     THEN /\ pc' = "finish"
          /\ UNCHANGED <<results, db, written, enterprises, loopVars>>
     ELSE LET entry == rows_to_process[cursor + 1]
              row == entry.data
              r == CreateManifest(db, enterprises, row, override_conflicts)
              python_error == r.error \in {"value_error", "missing_fields"}
          IN \E plan \in (IF retry_count = 0 THEN LockPlans ELSE {lock_plan}) :
             IF plan > 0 /\ ~python_error
             THEN /\ lock_seen' = TRUE
                  /\ lock_plan' = plan - 1
                  /\ IF retry_count + 1 < max_retries
                     THEN /\ retry_count' = retry_count + 1
                          /\ slept' = TransportDelay(retry_count')
                          /\ cur' = [Fresh(entry) EXCEPT !.log = Append(@, "locked")]
                          /\ UNCHANGED <<results, cursor>>
                     ELSE /\ results' = AddFailed(results, Some(entry.idx), "database_locked")
                          /\ cur' = [Fresh(entry) EXCEPT !.log = Append(@, "locked"),
                                                         !.done = TRUE]
                          /\ retry_count' = 0 /\ slept' = 0
                          /\ cursor' = cursor + 1
                  /\ UNCHANGED <<pc, db, written, enterprises, bulk_error>>
             ELSE /\ IF r.error = ""
                     THEN /\ results' = AddSuccess(results, 1)
                          /\ written' = written \cup
                               {[row |-> entry.row, key |-> entry.key,
                                 val |-> Some(NumberOf[row.weight]),
                                 op |-> IF entry.key \in Keys(db.manifest)
                                        THEN "update" ELSE "create"]}
                          /\ cur' = [Fresh(entry) EXCEPT !.log = Append(@, "ok"),
                                                         !.done = TRUE]
                     ELSE /\ results' = AddFailed(results, Some(entry.idx), r.error)
                          /\ cur' = [Fresh(entry) EXCEPT !.log = Append(@, "error"),
                                                         !.done = TRUE]
                          /\ UNCHANGED written
                  /\ db' = r.db
                  /\ enterprises' = r.dict
                  /\ retry_count' = 0 /\ slept' = 0
                  /\ cursor' = cursor + 1
                  /\ lock_plan' = 0
                  /\ UNCHANGED <<pc, bulk_error, lock_seen>>
  /\ UNCHANGED <<reqVars, response, bucketVars>>

\* ------------------------------ WasteManagement.batch_processor.WasteBatchProcessor
\* BatchProcessor.add_failure / add_conflict of shared_utils
add_failure(res, idx, reason) == AddFailed(res, Some(idx), reason)

add_conflict(res, idx) == [res EXCEPT !.conflicts = Append(@, [index |-> idx])]

\* row.get("total", ""): FIELD_INFO names the total column, so the
\* processor reads it from the row like any other field
CarriedTotal(row) == IF "total" \in DOMAIN row THEN row.total ELSE ""

\* WasteDataValidator.validate_row_data: the list of errors of a row
validate_row_data(row) ==
  LET FieldErrors(value) ==
        IF value = "" THEN <<>>
        ELSE IF ~IsNumeric(value) THEN <<"invalid_number">>
        ELSE IF NumberOf[value] < 0 THEN <<"negative">>
        ELSE <<>>
  IN IF ~validate_yyyy_mm_format(row.date)[1] THEN <<"date_invalid">>
     ELSE FieldErrors(row.amount) \o FieldErrors(CarriedTotal(row))

\* Step 1: validated_rows, a list of (idx, cleaned_data)
ValidatedRows(rs) ==
  LET V[i \in 0..Len(rs)] ==
        IF i = 0 THEN <<>>
        ELSE IF validate_row_data(rs[i]) = <<>>
             THEN Append(V[i - 1], [orig_idx |-> i - 1, date |-> rs[i].date,
                                    amount |-> ConvertOrNone(rs[i].amount),
                                    total |-> ConvertOrNone(CarriedTotal(rs[i]))])
             ELSE V[i - 1]
  IN V[Len(rs)]

ValidationFailures(rs) ==
  LET V[i \in 0..Len(rs)] ==
        IF i = 0 THEN NoResults
        ELSE IF validate_row_data(rs[i]) = <<>> THEN V[i - 1]
             ELSE add_failure(V[i - 1], i - 1, validate_row_data(rs[i])[1])
  IN [V[Len(rs)] EXCEPT !.total = Len(rs)]

\* WasteDataConflictManager.categorize_rows over [row[1] for row in
\* validated_rows]: idx is the position in the validated list
categorize_rows(validated, existing_dates, ov) ==
  LET F[i \in 0..Len(validated)] ==
        IF i = 0 THEN [create |-> <<>>, update |-> <<>>, conflict_indices |-> <<>>]
        ELSE LET acc == F[i - 1]
                 v == validated[i]
                 entry == [idx |-> i - 1, row |-> v.orig_idx, key |-> v.date,
                           amount |-> v.amount, total |-> v.total]
             IN IF v.date \in existing_dates
                THEN IF ov THEN [acc EXCEPT !.update = Append(@, entry)]
                     ELSE [acc EXCEPT !.conflict_indices = Append(@, i - 1)]
                ELSE [acc EXCEPT !.create = Append(@, entry)]
  IN F[Len(validated)]

\* "Handle conflicts": a conflict index is reported when some validated
\* row carries it as its original index
HandleConflicts(res, conflict_indices, validated) ==
  LET H[i \in 0..Len(conflict_indices)] ==
        IF i = 0 THEN res
        ELSE IF \E j \in 1..Len(validated) : validated[j].orig_idx = conflict_indices[i]
             THEN add_conflict(H[i - 1], conflict_indices[i])
             ELSE H[i - 1]
  IN H[Len(conflict_indices)]

\* a caller hands rows to WasteBatchProcessor.process_batch_import
ProcessorInvoke ==
  /\ pc = "idle" /\ endpoint = "processor"
  /\ \E body \in Batches(MonthlyRows), ov \in BOOLEAN :
       /\ rows' = body
       /\ override_conflicts' = ov
  /\ pc' = "admitted"
  /\ db0' = db
  /\ UNCHANGED <<endpoint, read_error, results, response, bucketVars, loopVars, db, written,
                 override_authorized, enterprises, rerun, first_ok>>

\* the response a caller builds from get_results(); the dict has no
\* success flag
ProcessorResults == [sent |-> TRUE, success |-> FALSE, error |-> "", results |-> TRUE]

\* WasteDataConflictManager.check_conflicts: an exception of the read is
\* logged and answered with the empty set
check_conflicts(table, dates) ==
  IF dates = {} THEN {}
  ELSE IF read_error THEN {}
  ELSE ExistingDates(table, dates)

\* process_batch_import, steps 1 to 3
ProcessBatchImport ==
  /\ pc = "admitted" /\ endpoint = "processor"
  /\ LET validated_rows == ValidatedRows(rows)
         c == categorize_rows(validated_rows,
                              check_conflicts(db.monthly,
                                              {validated_rows[i].date :
                                                 i \in 1..Len(validated_rows)}),
                              override_conflicts)
     IN IF validated_rows = <<>>
        THEN /\ results' = ValidationFailures(rows)
             /\ response' = ProcessorResults
             /\ pc' = "done"
             /\ UNCHANGED bucketVars
        ELSE /\ results' = HandleConflicts(ValidationFailures(rows), c.conflict_indices,
                                           validated_rows)
             /\ rows_to_create' = c.create
             /\ rows_to_update' = c.update
             /\ pc' = "create"
             /\ UNCHANGED <<response, rows_to_process>>
  /\ override_authorized' = override_conflicts
  /\ UNCHANGED <<endpoint, read_error, rows, override_conflicts, loopVars, db, db0, written,
                 enterprises, rerun, first_ok>>

FailAll(res, bucket, reason) ==
  LET F[i \in 0..Len(bucket)] ==
        IF i = 0 THEN res ELSE add_failure(F[i - 1], bucket[i].idx, reason)
  IN F[Len(bucket)]

\* _process_creates: one transaction, bulk_create(ignore_conflicts=False);
\* any exception marks every row of the bucket failed
ProcessCreates ==
  /\ pc = "create" /\ endpoint = "processor"
  /\ IF rows_to_create = <<>>
     THEN UNCHANGED <<results, db, written, cur, lock_seen>>
     ELSE \E plan \in LockPlans :
          LET last == rows_to_create[Len(rows_to_create)]
          IN IF plan > 0
             THEN /\ results' = FailAll(results, rows_to_create, "database_locked")
                  /\ cur' = [row |-> last.row, log |-> <<"locked">>, done |-> TRUE]
                  /\ lock_seen' = TRUE
                  /\ UNCHANGED <<db, written>>
             ELSE IF HasDuplicates(BucketKeys(rows_to_create))
                     \/ Keys(db.monthly) \cap SeqToSet(BucketKeys(rows_to_create)) # {}
             THEN /\ results' = FailAll(results, rows_to_create, "integrity_error")
                  /\ cur' = [row |-> last.row, log |-> <<"error">>, done |-> TRUE]
                  /\ UNCHANGED <<db, written, lock_seen>>
             ELSE /\ db' = [db EXCEPT !.monthly =
                              @ \cup {Record(rows_to_create[i]) :
                                        i \in 1..Len(rows_to_create)}]
                  /\ results' = AddSuccess(results, Len(rows_to_create))
                  /\ written' = written \cup Writes(rows_to_create, "create")
                  /\ cur' = [row |-> last.row, log |-> <<"ok">>, done |-> TRUE]
                  /\ UNCHANGED lock_seen
  /\ pc' = "update"
  /\ UNCHANGED <<reqVars, response, bucketVars, cursor, retry_count, slept, lock_plan, bulk_error,
                 enterprises>>

\* _process_updates: each row in its own transaction, filter(date).update()
ProcessUpdates ==
  /\ pc = "update" /\ endpoint = "processor"
  /\ IF cursor = Len(rows_to_update)
     THEN /\ response' = ProcessorResults
          /\ pc' = "done"
          /\ UNCHANGED <<results, db, written, cursor, cur, lock_seen>>
     ELSE LET entry == rows_to_update[cursor + 1]
          IN /\ \E plan \in LockPlans :
                  IF plan > 0
                  THEN /\ results' = add_failure(results, entry.idx, "database_locked")
                       /\ cur' = [row |-> entry.row, log |-> <<"locked">>, done |-> TRUE]
                       /\ lock_seen' = TRUE
                       /\ UNCHANGED <<db, written>>
                  ELSE IF entry.key \notin Keys(db.monthly)
                  THEN /\ results' = add_failure(results, entry.idx, "not_found")
                       /\ cur' = [row |-> entry.row, log |-> <<"error">>, done |-> TRUE]
                       /\ UNCHANGED <<db, written, lock_seen>>
                  ELSE /\ db' = [db EXCEPT !.monthly =
                                   {r \in @ : r.key # entry.key} \cup {Record(entry)}]
                       /\ results' = AddSuccess(results, 1)
                       /\ written' = written \cup Writes(<<entry>>, "update")
                       /\ cur' = [row |-> entry.row, log |-> <<"ok">>, done |-> TRUE]
                       /\ UNCHANGED lock_seen
             /\ cursor' = cursor + 1
             /\ UNCHANGED <<pc, response>>
  /\ UNCHANGED <<reqVars, bucketVars, retry_count, slept, lock_plan, bulk_error, enterprises>>

\* ---------------------------------------------------------- end of a request
Finish ==
  /\ pc = "finish"
  /\ response' = ResultsResponse(results, override_conflicts)
  /\ pc' = "done"
  /\ UNCHANGED <<reqVars, results, bucketVars, loopVars, db, written, enterprises>>

\* every row of the finished request had a record written and none was
\* reported as failed or conflicting
EveryRowWritten ==
  /\ results.failed = <<>>
  /\ results.conflicts = <<>>
  /\ \A i \in 1..Len(rows) : \E w \in written : w.row = i - 1

ClearRequest ==
  /\ results' = NoResults
  /\ response' = NoResponse
  /\ rows_to_create' = <<>>
  /\ rows_to_update' = <<>>
  /\ rows_to_process' = <<>>
  /\ cursor' = 0 /\ retry_count' = 0 /\ slept' = 0 /\ lock_plan' = 0
  /\ bulk_error' = "none" /\ cur' = NoRow
  /\ written' = {}
  /\ override_authorized' = FALSE
  /\ lock_seen' = FALSE
  /\ enterprises' = {}
  /\ db0' = db

\* The client submits the body of the finished request once more, with
\* override_conflicts = false.
Resubmit ==
  /\ pc = "done" /\ response.results /\ ~rerun
  /\ rerun' = TRUE
  /\ first_ok' = EveryRowWritten
  /\ pc' = "admitted"
  /\ override_conflicts' = FALSE
  /\ ClearRequest
  /\ UNCHANGED <<endpoint, read_error, rows, db>>

\* The response has been delivered; the next request finds the committed
\* tables and nothing else.
NextRequest ==
  /\ pc = "done"
  /\ pc' = "idle"
  /\ rows' = <<>>
  /\ override_conflicts' = FALSE
  /\ rerun' = FALSE
  /\ first_ok' = FALSE
  /\ ClearRequest
  /\ UNCHANGED <<endpoint, read_error, db>>

Next ==
  \/ PermissionRequired
  \/ MgmtBatchImport
  \/ MgmtBulkCreate
  \/ MgmtFallbackCreate
  \/ MgmtBulkUpdate
  \/ MgmtFallbackUpdate
  \/ DeptBatchImport
  \/ DeptBulkCreate
  \/ DeptFallbackCreate
  \/ DeptBulkUpdate
  \/ DeptFallbackUpdate
  \/ SaveDepartmentData
  \/ HospBatchImport
  \/ HospProcessBatchCreate
  \/ HospUpdateDelete
  \/ HospUpdateCreate
  \/ TransportBatchImport
  \/ TransportAttempt
  \/ ProcessorInvoke
  \/ ProcessBatchImport
  \/ ProcessCreates
  \/ ProcessUpdates
  \/ Finish
  \/ Resubmit
  \/ NextRequest

Spec == Init /\ [][Next]_vars

\* ------------------------------------------------------ a second import call
\* One transaction committed by another import call on the same table while
\* this call is between its classification and its response.  The other
\* call carries a row with the natural key of one of this call's rows; its
\* transactions are those of the code above: an insert under the
\* uniqueness constraint, a delete-and-insert, and for the hospital table
\* the upsert, the delete and the insert of process_batch_update.
ConcurrentCommit ==
  /\ pc \in {"create", "fallback_create", "update", "update_create", "fallback_update"}
  /\ \E i \in 1..Len(rows), v \in {"5", "7"}, op \in {"insert", "replace", "delete"} :
       LET value == Some(NumberOf[v])
           Insert(tbl, K) ==
             /\ op = "insert" /\ K \notin Keys(db[tbl])
             /\ db' = [db EXCEPT ![tbl] =
                         @ \cup {ModelRecord(tbl, [key |-> K, amount |-> value])}]
           Replace(tbl, K) ==
             /\ op = "replace"
             /\ db' = [db EXCEPT ![tbl] =
                         {r \in @ : r.key # K} \cup
                         {ModelRecord(tbl, [key |-> K, amount |-> value])}]
       IN IF endpoint = "transportation"
          THEN LET r == CreateManifest(db, {}, [rows[i] EXCEPT !.weight = v], op = "replace")
               IN /\ op # "delete" /\ r.error = "" /\ db' = r.db
          ELSE IF endpoint = "department"
          THEN \E j \in 1..Len(rows[i].cols) :
                 /\ rows[i].cols[j][1] \in DOMAIN dept_mapping
                 /\ validate_yyyy_mm_format(rows[i].date)[1]
                 /\ LET K == <<rows[i].date, dept_mapping[rows[i].cols[j][1]]>>
                    IN Insert("waste_record", K) \/ Replace("waste_record", K)
          ELSE IF endpoint = "prediction"
          THEN /\ validate_date_format(rows[i].date)
               /\ \/ Insert("hospital", rows[i].date)
                  \/ Replace("hospital", rows[i].date)
                  \/ /\ op = "delete" /\ rows[i].date \in Keys(db.hospital)
                     /\ db' = [db EXCEPT !.hospital = {r \in @ : r.key # rows[i].date}]
          ELSE /\ validate_yyyy_mm_format(rows[i].date)[1]
               /\ Insert("monthly", rows[i].date) \/ Replace("monthly", rows[i].date)
  /\ db' # db
  /\ UNCHANGED <<endpoint, read_error, pc, rows, override_conflicts, results, response, bucketVars,
                 loopVars, db0, written, override_authorized, enterprises, rerun, first_ok>>

\* the tables after one earlier import of the first key of the endpoint
StoredOnce(ep) ==
  IF ep = "transportation"
  THEN [EmptyDb EXCEPT !.manifest = {[key |-> "M1", declaration |-> <<"M1", "E1", "d1">>]},
                       !.declaration = {[key |-> <<"M1", "E1", "d1">>, amount |-> Some(5)]},
                       !.enterprise = {"E1"}]
  ELSE IF ep = "department"
  THEN [EmptyDb EXCEPT !.waste_record = {[key |-> <<"2024-01", 1>>, amount |-> Some(5)]}]
  ELSE IF ep = "prediction"
  THEN [EmptyDb EXCEPT !.hospital = {[key |-> "2024-01", amount |-> Some(5)]}]
  ELSE [EmptyDb EXCEPT !.monthly =
                         {[key |-> "2024-01", amount |-> Some(5), total |-> Some(5)]}]

\* The rows of the racing request: two well-formed rows per endpoint and
\* one that the write phase or the validation refuses.
RaceRows(ep) ==
  IF ep = "department"
  THEN {[date |-> "2024-01", cols |-> <<<<"A", a>>, <<"B", "5">>>>] : a \in {"5", "7"}}
  ELSE IF ep = "transportation"
  THEN {[manifest_number |-> "M1", enterprise_code |-> e,
         declaration_date |-> d, weight |-> "5"] :
          e \in {"E1"}, d \in {"d1", "d2"}} \cup
       {[manifest_number |-> "M1", enterprise_code |-> "",
         declaration_date |-> "d1", weight |-> "5"]}
  ELSE {[date |-> d, amount |-> "5"] : d \in {"2024-01", "2024-02"}} \cup
       {[date |-> "2024-01", amount |-> "abc"]}

\* One admitted request (a handed-over batch for the processor) on an
\* empty or a seeded database.
InitRace ==
  /\ endpoint \in Endpoints
  /\ db \in {EmptyDb, StoredOnce(endpoint)}
  /\ db0 = db
  /\ pc = "admitted"
  /\ rows \in Batches(RaceRows(endpoint))
  /\ override_conflicts \in BOOLEAN
  /\ results = NoResults
  /\ response = NoResponse
  /\ rows_to_create = <<>>
  /\ rows_to_update = <<>>
  /\ rows_to_process = <<>>
  /\ cursor = 0
  /\ retry_count = 0 /\ slept = 0
  /\ lock_plan = 0
  /\ bulk_error = "none"
  /\ cur = NoRow
  /\ written = {}
  /\ override_authorized = FALSE
  /\ lock_seen = FALSE
  /\ enterprises = {}
  /\ rerun = FALSE
  /\ first_ok = FALSE
  /\ read_error = FALSE

NextRace ==
  \/ MgmtBatchImport
  \/ MgmtBulkCreate
  \/ MgmtFallbackCreate
  \/ MgmtBulkUpdate
  \/ MgmtFallbackUpdate
  \/ DeptBatchImport
  \/ DeptBulkCreate
  \/ DeptFallbackCreate
  \/ DeptBulkUpdate
  \/ DeptFallbackUpdate
  \/ HospBatchImport
  \/ HospProcessBatchCreate
  \/ HospUpdateDelete
  \/ HospUpdateCreate
  \/ TransportBatchImport
  \/ TransportAttempt
  \/ ProcessBatchImport
  \/ ProcessCreates
  \/ ProcessUpdates
  \/ Finish
  \/ ConcurrentCommit

SpecRace == InitRace /\ [][NextRace]_vars


\* ======================================================== checked properties
\* C1: once classification is finished every submitted row is in exactly
\* one of the buckets create, update, conflict, rejected (the manifest
\* import keeps create and update in one list until the write), and the
\* bucket sizes add up to the number of submitted rows.
C1_Partition ==
  (pc = "create" /\ cursor = 0 /\ retry_count = 0) =>
    LET InBucket(bucket, i) == \E k \in 1..Len(bucket) : bucket[k].row = i
        InConflicts(i) == \E k \in 1..Len(results.conflicts) : results.conflicts[k].index = i
        InFailed(i) == \E k \in 1..Len(results.failed) : results.failed[k].index = Some(i)
        N(b) == IF b THEN 1 ELSE 0
        RowsOf(bucket) == Cardinality({bucket[k].row : k \in 1..Len(bucket)})
    IN /\ \A i \in 0..(Len(rows) - 1) :
            N(InBucket(rows_to_create, i)) + N(InBucket(rows_to_update, i))
              + N(InBucket(rows_to_process, i)) + N(InConflicts(i)) + N(InFailed(i)) = 1
       /\ RowsOf(rows_to_create) + RowsOf(rows_to_update) + RowsOf(rows_to_process)
            + Len(results.conflicts) + Len(results.failed) = Len(rows)

C3_OverrideCorrect ==
  (pc = "done" /\ response.results /\ override_authorized) =>
    LET table(d) == IF endpoint = "transportation" THEN d.manifest
                    ELSE IF endpoint = "department" THEN d.waste_record
                    ELSE IF endpoint = "prediction" THEN d.hospital
                    ELSE d.monthly
        Stored(K) ==
          IF endpoint = "transportation"
          THEN {d.amount : d \in {x \in db.declaration :
                                    \E m \in db.manifest : m.key = K /\ m.declaration = x.key}}
          ELSE {r.amount : r \in {x \in table(db) : x.key = K}}
    IN \A w \in written :
         (/\ w.key \in Keys(table(db0))
          /\ w.val # None /\ w.val[1] >= 0
          /\ \A w2 \in written : w2.key = w.key => w2 = w) =>
           /\ Cardinality({x \in table(db) : x.key = w.key}) = 1
           /\ Stored(w.key) = {w.val}

\* C4: no import writes a record with a negative amount.
C4_NoNegativeWritten ==
  \A w \in written : w.val # None => w.val[1] >= 0

\* C5: in the monthly and the hospital import, for a batch whose rows have
\* pairwise distinct natural keys none of which is persisted, and with no
\* lock error, every valid row is written, every malformed row is reported
\* in failed, and the success count is the number of valid rows.
C5_ValidationBeforeWrite ==
  LET Valid(row) ==
        /\ validate_yyyy_mm_format(row.date)[1]
        /\ IsNumeric(row.amount) /\ NumberOf[row.amount] >= 0
      table0 == IF endpoint = "prediction" THEN db0.hospital ELSE db0.monthly
      Independent ==
        /\ \A i, j \in 1..Len(rows) : i # j => rows[i].date # rows[j].date
        /\ \A i \in 1..Len(rows) : rows[i].date \notin Keys(table0)
  IN (/\ endpoint \in {"management", "prediction"}
      /\ pc = "done" /\ response.results /\ ~lock_seen /\ Independent) =>
       /\ results.success = Cardinality({i \in 1..Len(rows) : Valid(rows[i])})
       /\ \A i \in 1..Len(rows) :
            IF Valid(rows[i])
            THEN \E w \in written : w.row = i - 1
            ELSE \E k \in 1..Len(results.failed) : results.failed[k].index = Some(i - 1)

\* C6: when the first two write attempts for a row met the lock error and
\* storage accepts the third, three attempts were made, the third wrote the
\* row, and the row is a success.
C6_LockRetry ==
  (/\ cur.done
   /\ Len(cur.log) >= 2
   /\ cur.log[1] = "locked" /\ cur.log[2] = "locked"
   /\ IF Len(cur.log) = 2 THEN lock_plan = 0 ELSE cur.log[3] = "ok") =>
    /\ cur.log = <<"locked", "locked", "ok">>
    /\ \E w \in written : w.row = cur.row

\* C7: in the department import without override, a row one of whose
\* department columns has a persisted record gets no record written for
\* any of its columns.
C7_AllOrNothing ==
  (/\ endpoint = "department" /\ pc = "done" /\ response.results
   /\ ~override_conflicts /\ ~lock_seen) =>
    \A i \in 1..Len(rows) :
      (\E j \in 1..Len(rows[i].cols) :
          /\ rows[i].cols[j][1] \in DOMAIN dept_mapping
          /\ IsNumeric(rows[i].cols[j][2])
          /\ NumberOf[rows[i].cols[j][2]] >= 0
          /\ <<rows[i].date, dept_mapping[rows[i].cols[j][1]]>> \in Keys(db0.waste_record))
      => ~\E w \in written : w.row = i - 1

\* C8: a validated row is classified by the decision table: create exactly
\* when no record with its key is persisted at preload time, update when
\* one is persisted and override is in force, conflict when one is
\* persisted and override is not in force.
C8_DecisionTable ==
  LET table == IF endpoint = "department" THEN db0.waste_record
               ELSE IF endpoint = "prediction" THEN db0.hospital
               ELSE db0.monthly
      InBucket(bucket, i) == \E k \in 1..Len(bucket) : bucket[k].row = i
      InConflicts(i) == \E k \in 1..Len(results.conflicts) : results.conflicts[k].index = i
      InFailed(i) == \E k \in 1..Len(results.failed) : results.failed[k].index = Some(i)
  IN /\ (pc = "create" /\ cursor = 0 /\ retry_count = 0 /\ endpoint # "transportation") =>
          /\ \A k \in 1..Len(rows_to_create) : rows_to_create[k].key \notin Keys(table)
          /\ \A k \in 1..Len(rows_to_update) :
               rows_to_update[k].key \in Keys(table) /\ override_conflicts
          /\ results.conflicts # <<>> => ~override_conflicts
          /\ endpoint # "department" =>
               \A i \in 0..(Len(rows) - 1) :
                 /\ InConflicts(i) => rows[i + 1].date \in Keys(table)
                 /\ ~InFailed(i) =>
                      \/ InBucket(rows_to_create, i)
                      \/ InBucket(rows_to_update, i)
                      \/ InConflicts(i)
     /\ (pc = "done" /\ endpoint = "transportation") =>
          \A w \in written : w.op = "create" <=> w.key \notin Keys(db0.manifest)

\* C9: a call that asks for override_conflicts = true without the override
\* capability is answered with one top-level error and no per-row results,
\* and storage is as it was before the call.
C9_PermissionShortCircuit ==
  (override_conflicts /\ ~override_authorized /\ pc \notin {"idle", "admitted"}) =>
    /\ pc = "done"
    /\ response.sent /\ ~response.success /\ ~response.results
    /\ response.error = IF rows = <<>> THEN "missing_parameters" ELSE "no_override_permission"
    /\ results = NoResults
    /\ written = {}
    /\ db = db0

\* an override request of an admitted caller without the capability was
\* refused while records were stored
C9_Witness ==
  /\ pc = "done" /\ override_conflicts /\ rows # <<>>
  /\ response.error = "no_override_permission"
  /\ db # EmptyDb

\* C10: a view that returns results answers success = false exactly when
\* conflicts were recorded and override was not used; failed rows alone
\* leave success = true.
C10_SuccessFlag ==
  (response.sent /\ response.results /\ endpoint # "processor") =>
    (response.success = FALSE <=> (results.conflicts # <<>> /\ ~override_conflicts))

\* a call with failed rows and no conflict was answered success = true
C10_Witness ==
  /\ pc = "done" /\ response.results /\ endpoint # "processor"
  /\ results.failed # <<>> /\ results.conflicts = <<>>
  /\ response.success

\* C11: when the lock error met all three write attempts of a row, the row
\* is recorded in results.failed with the lock reason; the call goes on
\* with the remaining rows and ends with its structured result, in which
\* every row handed to the write loop is either written or failed.
C11_LockExhaustionReported ==
  LET LockFailed(i) ==
        \E k \in 1..Len(results.failed) :
          results.failed[k] = [index |-> Some(i), reason |-> "database_locked"]
      Accounted(bucket) ==
        \A k \in 1..Len(bucket) :
          \/ \E w \in written : w.row = bucket[k].row
          \/ \E j \in 1..Len(results.failed) : results.failed[j].index = Some(bucket[k].idx)
  IN /\ (cur.done /\ cur.log = <<"locked", "locked", "locked">>) =>
          /\ LockFailed(cur.row)
          /\ ~\E w \in written : w.row = cur.row
          /\ response.sent => response.results
     /\ (/\ pc = "done" /\ endpoint \in {"transportation", "prediction"}
         /\ \E i \in 0..(Len(rows) - 1) : LockFailed(i)) =>
          /\ response.results
          /\ Accounted(rows_to_process)
          /\ Accounted(rows_to_update)

\* the first row ran out of retries, a later row of the batch was written,
\* and the call returned its results
C11_Witness ==
  /\ pc = "done" /\ response.results
  /\ \E k \in 1..Len(results.failed) :
       results.failed[k] = [index |-> Some(0), reason |-> "database_locked"]
  /\ \E w \in written : w.row = 1

\* C12: an override update by delete and insert is atomic: in the monthly,
\* department and hospital tables a natural key that had a record when the
\* call started has exactly one record when the call has ended, and
\* that record holds the old value or a value the call wrote for the key,
\* also when the update failed or ran out of lock retries.
C12_AtomicUpdate ==
  LET table(d) == IF endpoint = "transportation" THEN d.manifest
                  ELSE IF endpoint = "department" THEN d.waste_record
                  ELSE IF endpoint = "prediction" THEN d.hospital
                  ELSE d.monthly
  IN (pc = "done" /\ endpoint # "transportation") =>
       \A old \in table(db0) :
         /\ Cardinality({r \in table(db) : r.key = old.key}) = 1
         /\ \A r \in table(db) :
              r.key = old.key =>
                \/ r.amount = old.amount
                \/ \E w \in written : w.key = old.key /\ w.val = r.amount

\* C13: in every interleaving of an import call with the transactions of
\* another import call on the same natural keys, no table holds two
\* records with one natural key.
C13_NoDuplicateKey ==
  \A t \in {db.monthly, db.waste_record, db.hospital, db.manifest, db.declaration} :
    \A r1, r2 \in t : r1.key = r2.key => r1 = r2

\* both calls committed a record: this call wrote one key and the table
\* holds another record that this call did not write
C13_Witness ==
  /\ pc = "done" /\ response.results
  /\ written # {}
  /\ \E t \in {db.monthly, db.waste_record, db.hospital} :
       /\ \E r \in t : \E w \in written : w.key = r.key /\ w.val = r.amount
       /\ \E r \in t :
            /\ r \notin (db0.monthly \cup db0.waste_record \cup db0.hospital)
            /\ ~\E w \in written : w.key = r.key /\ w.val = r.amount

\* C14: every entry of results.failed and of results.conflicts carries an
\* index, and the index is the position of a submitted row; a conflict
\* entry points at a row whose natural key was persisted.
C14_EntriesCarryIndex ==
  /\ \A k \in 1..Len(results.failed) :
       /\ results.failed[k].index # None
       /\ results.failed[k].index[1] \in 0..(Len(rows) - 1)
  /\ \A k \in 1..Len(results.conflicts) :
       /\ results.conflicts[k].index \in 0..(Len(rows) - 1)
       /\ endpoint \in {"management", "processor"} =>
            rows[results.conflicts[k].index + 1].date \in Keys(db0.monthly)

\* C15: a row one of whose fields (or department columns) failed
\* validation is wholly rejected: no record derived from it is written.
C15_WhollyRejected ==
  \A k \in 1..Len(results.failed) :
    (/\ results.failed[k].index # None
     /\ results.failed[k].reason \in
          {"EMPTY_DATE_MSG", "INVALID_FORMAT_MSG", "INVALID_YEAR_MSG", "INVALID_MONTH_MSG",
           "date_invalid", "field_format", "required_field_empty", "unknown_department",
           "amount_format", "amount_negative", "invalid_number", "negative",
           "not_a_non_negative_integer", "missing_manifest_number", "missing_fields",
           "value_error"}) =>
      ~\E w \in written : w.row = results.failed[k].index[1]

\* ------------------------------------------------- date rejection, every path
\* The date strings of the date-validation runs: empty, valid, month out of
\* range, year out of range.
DateStrings == {"", "2024-01", "2024-13", "1969-01"}

\* Rows that differ in their date only, in the shape the endpoint reads.
DateRows(ep) ==
  IF ep = "department"
  THEN {[date |-> d, cols |-> <<<<"A", "5">>>>] : d \in DateStrings}
  ELSE [date : DateStrings, amount : {"5"}]

\* An admitted request (a handed-over batch for the processor) of one or two
\* rows on an empty database; the paths that read a YYYY-MM date.
InitDate ==
  /\ endpoint \in Endpoints \ {"transportation"}
  /\ pc = "admitted"
  /\ \E n \in 1..MaxRows : rows \in [1..n -> DateRows(endpoint)]
  /\ override_conflicts \in BOOLEAN
  /\ results = NoResults
  /\ response = NoResponse
  /\ rows_to_create = <<>>
  /\ rows_to_update = <<>>
  /\ rows_to_process = <<>>
  /\ cursor = 0
  /\ retry_count = 0 /\ slept = 0
  /\ lock_plan = 0
  /\ bulk_error = "none"
  /\ cur = NoRow
  /\ db = EmptyDb
  /\ db0 = EmptyDb
  /\ written = {}
  /\ override_authorized = FALSE
  /\ lock_seen = FALSE
  /\ enterprises = {}
  /\ rerun = FALSE
  /\ first_ok = FALSE
  /\ read_error = FALSE

NextDate ==
  \/ MgmtBatchImport
  \/ DeptBatchImport
  \/ HospBatchImport
  \/ ProcessBatchImport

SpecDate == InitDate /\ [][NextDate]_vars

\* C16: once the rows are validated, every row whose date is not YYYY-MM
\* with year 1970..9999 and month 01..12 is rejected, and its failure entry
\* carries the one canonical date message, whatever the defect and the path.
C16_CanonicalDateReason ==
  LET Malformed(d) == \/ d \notin DOMAIN DateDigits
                      \/ DateDigits[d][1] \notin MIN_YEAR..MAX_YEAR
                      \/ DateDigits[d][2] \notin MIN_MONTH..MAX_MONTH
  IN (results.total = Len(rows) /\ rows # <<>>) =>
       \A i \in 1..Len(rows) :
         Malformed(rows[i].date) =>
           /\ \E k \in 1..Len(results.failed) : results.failed[k].index = Some(i - 1)
           /\ \A k \in 1..Len(results.failed) :
                results.failed[k].index = Some(i - 1) =>
                  results.failed[k].reason = "INVALID_FORMAT_MSG"

LiveRows(ep) ==
  IF ep = "department"
  THEN {[date |-> "2024-01", cols |-> <<<<"A", a>>, <<"B", "5">>>>] : a \in {"5", "7"}}
  ELSE IF ep = "transportation"
  THEN {[manifest_number |-> "M1", enterprise_code |-> "E1",
         declaration_date |-> d, weight |-> "5"] : d \in {"d1", "d2"}}
  ELSE {[date |-> d, amount |-> "5"] : d \in {"2024-01", "2024-02"}}

\* One admitted request (a handed-over batch for the processor) on an
\* empty or a seeded database.
InitLive ==
  /\ endpoint \in Endpoints
  /\ db \in {EmptyDb, StoredOnce(endpoint)}
  /\ db0 = db
  /\ pc = "admitted"
  /\ rows \in Batches(LiveRows(endpoint))
  /\ override_conflicts \in BOOLEAN
  /\ results = NoResults
  /\ response = NoResponse
  /\ rows_to_create = <<>>
  /\ rows_to_update = <<>>
  /\ rows_to_process = <<>>
  /\ cursor = 0
  /\ retry_count = 0 /\ slept = 0
  /\ lock_plan = 0
  /\ bulk_error = "none"
  /\ cur = NoRow
  /\ written = {}
  /\ override_authorized = FALSE
  /\ lock_seen = FALSE
  /\ enterprises = {}
  /\ rerun = FALSE
  /\ first_ok = FALSE
  /\ read_error = FALSE

\* The handler is one sequential thread of the server: as long as it has a
\* step to take it takes one (every sleep between retries is finite), which
\* is weak fairness of its step.
NextLive ==
  \/ MgmtBatchImport
  \/ MgmtBulkCreate
  \/ MgmtFallbackCreate
  \/ MgmtBulkUpdate
  \/ MgmtFallbackUpdate
  \/ DeptBatchImport
  \/ DeptBulkCreate
  \/ DeptFallbackCreate
  \/ DeptBulkUpdate
  \/ DeptFallbackUpdate
  \/ HospBatchImport
  \/ HospProcessBatchCreate
  \/ HospUpdateDelete
  \/ HospUpdateCreate
  \/ TransportBatchImport
  \/ TransportAttempt
  \/ ProcessBatchImport
  \/ ProcessCreates
  \/ ProcessUpdates
  \/ Finish

SpecLive == InitLive /\ [][NextLive]_vars /\ WF_vars(NextLive)

\* C18: whatever the lock environment does, no row sees more than 3 write
\* attempts in its retry loop, and every import call that has started
\* eventually reaches its final response.
C18_Terminates ==
  /\ [](Len(cur.log) <= 3 /\ retry_count < 3)
  /\ (pc = "admitted") ~> (pc = "done" /\ response.sent)

C18_Witness ==
  /\ pc = "done" /\ response.sent /\ response.results
  /\ cur.log = <<"locked", "locked", "locked">>
  /\ lock_plan > 0

\* C19: when the bulk create of a request failed for a reason other than
\* the lock, the rows of the create bucket were then written one by one:
\* every row that can be written (its key is not stored and no earlier row
\* of the bucket has it) is written and counted as a success, and every
\* other row of the bucket has a failure entry of its own.
C19_FallbackRowByRow ==
  LET tbl == IF endpoint = "department" THEN "waste_record" ELSE "monthly"
      BulkFailed ==
        /\ pc = "update" /\ cursor = 0 /\ rows_to_create # <<>>
        /\ \/ endpoint \in {"management", "department"} /\ bulk_error = "error"
           \/ endpoint = "processor" /\ cur.log = <<"error">>
      Writable == {k \in 1..Len(rows_to_create) :
                     /\ rows_to_create[k].key \notin Keys(db0[tbl])
                     /\ \A j \in 1..(k - 1) : rows_to_create[j].key # rows_to_create[k].key}
      CreateFailures == {j \in 1..Len(results.failed) :
                           results.failed[j].reason \in {"create_failed", "integrity_error"}}
  IN BulkFailed =>
       /\ \A k \in Writable :
            \E w \in written : w.row = rows_to_create[k].row /\ w.key = rows_to_create[k].key
       /\ results.success = Cardinality(Writable)
       /\ Cardinality(CreateFailures) = Len(rows_to_create) - Cardinality(Writable)

\* ---------------------------------------------------------- the derived total
\* Monthly rows that may carry a total of their own.
TotalRows == [date : {"2024-01", "2024-02"}, amount : {"", "5"}, total : {"", "7"}]

\* One admitted request (a handed-over batch for the processor) for a
\* monthly table with a total column, on an empty or a seeded table.
InitTotal ==
  /\ endpoint \in {"management", "processor"}
  /\ db \in {EmptyDb, StoredOnce(endpoint)}
  /\ db0 = db
  /\ pc = "admitted"
  /\ rows \in Batches(TotalRows)
  /\ override_conflicts \in BOOLEAN
  /\ results = NoResults
  /\ response = NoResponse
  /\ rows_to_create = <<>>
  /\ rows_to_update = <<>>
  /\ rows_to_process = <<>>
  /\ cursor = 0
  /\ retry_count = 0 /\ slept = 0
  /\ lock_plan = 0
  /\ bulk_error = "none"
  /\ cur = NoRow
  /\ written = {}
  /\ override_authorized = FALSE
  /\ lock_seen = FALSE
  /\ enterprises = {}
  /\ rerun = FALSE
  /\ first_ok = FALSE
  /\ read_error = FALSE

NextTotal ==
  \/ MgmtBatchImport
  \/ MgmtBulkCreate
  \/ MgmtFallbackCreate
  \/ MgmtBulkUpdate
  \/ MgmtFallbackUpdate
  \/ ProcessBatchImport
  \/ ProcessCreates
  \/ ProcessUpdates
  \/ Finish

SpecTotal == InitTotal /\ [][NextTotal]_vars

\* C20: every monthly record the import created or replaced stores as its
\* total the sum of its constituent fields (an absent field counts 0),
\* whatever total the submitted row carried.
C20_TotalIsSum ==
  \A r \in db.monthly :
    (\E w \in written : w.key = r.key) =>
      r.total = Some(IF r.amount = None THEN 0 ELSE r.amount[1])

\* ------------------------------------------------------- a failing preload
\* One admitted request (a handed-over batch for the processor) on an
\* empty or a seeded database whose preload read may raise.
InitPreload ==
  /\ endpoint \in Endpoints
  /\ read_error \in BOOLEAN
  /\ db \in {EmptyDb, StoredOnce(endpoint)}
  /\ db0 = db
  /\ pc = "admitted"
  /\ rows \in Batches(RaceRows(endpoint))
  /\ override_conflicts \in BOOLEAN
  /\ results = NoResults
  /\ response = NoResponse
  /\ rows_to_create = <<>>
  /\ rows_to_update = <<>>
  /\ rows_to_process = <<>>
  /\ cursor = 0
  /\ retry_count = 0 /\ slept = 0
  /\ lock_plan = 0
  /\ bulk_error = "none"
  /\ cur = NoRow
  /\ written = {}
  /\ override_authorized = FALSE
  /\ lock_seen = FALSE
  /\ enterprises = {}
  /\ rerun = FALSE
  /\ first_ok = FALSE

SpecPreload == InitPreload /\ [][NextLive]_vars

\* C21: when the preload read of the existing keys raises, the call ends
\* with the storage error and nothing else: no results, no bucket filled,
\* nothing written; the failed read is never taken for "no existing keys".
C21_PreloadFailurePropagates ==
  LET Queried == IF endpoint = "processor" THEN ValidatedRows(rows) # <<>>
                 ELSE PreloadQueried(endpoint, rows)
      EarlierExit == /\ response.sent
                     /\ response.error \in {"missing_parameters", "no_override_permission"}
  IN (read_error /\ pc \notin {"idle", "admitted"} /\ Queried /\ ~EarlierExit) =>
       /\ pc = "done"
       /\ response = ErrorResponse("server_error")
       /\ results = NoResults
       /\ rows_to_create = <<>> /\ rows_to_update = <<>> /\ rows_to_process = <<>>
       /\ written = {} /\ db = db0

\* ------------------------------------------- field values that are no strings
\* Rows whose amount is a string or a JSON number.
ShapeRows(ep) ==
  IF ep = "department"
  THEN {[date |-> "2024-01", cols |-> <<<<"A", a>>, <<"B", "5">>>>] : a \in {"5", "#5"}}
  ELSE [date : {"2024-01", "2024-02"}, amount : {"5", "#5"}]

\* One admitted request on an empty or a seeded database.
InitShape ==
  /\ endpoint \in {"management", "department", "prediction"}
  /\ db \in {EmptyDb, StoredOnce(endpoint)}
  /\ db0 = db
  /\ pc = "admitted"
  /\ rows \in Batches(ShapeRows(endpoint))
  /\ override_conflicts \in BOOLEAN
  /\ results = NoResults
  /\ response = NoResponse
  /\ rows_to_create = <<>>
  /\ rows_to_update = <<>>
  /\ rows_to_process = <<>>
  /\ cursor = 0
  /\ retry_count = 0 /\ slept = 0
  /\ lock_plan = 0
  /\ bulk_error = "none"
  /\ cur = NoRow
  /\ written = {}
  /\ override_authorized = FALSE
  /\ lock_seen = FALSE
  /\ enterprises = {}
  /\ rerun = FALSE
  /\ first_ok = FALSE
  /\ read_error = FALSE

NextShape ==
  \/ MgmtBatchImport
  \/ MgmtBulkCreate
  \/ MgmtFallbackCreate
  \/ MgmtBulkUpdate
  \/ MgmtFallbackUpdate
  \/ DeptBatchImport
  \/ DeptBulkCreate
  \/ DeptFallbackCreate
  \/ DeptBulkUpdate
  \/ DeptFallbackUpdate
  \/ HospBatchImport
  \/ HospProcessBatchCreate
  \/ HospUpdateDelete
  \/ HospUpdateCreate
  \/ Finish

SpecShape == InitShape /\ [][NextShape]_vars

\* C22: when preparing a row raises (the department and the hospital import
\* call strip() on a field value that is a number), the call still returns
\* its results, that row is in failed under its index, and every other row
\* of the batch is accounted for in failed, conflicts or the written records.
C22_ExceptionConfinedToRow ==
  LET Raises(i) ==
        IF endpoint = "department"
        THEN \E j \in 1..Len(rows[i].cols) : IsJsonNumber(rows[i].cols[j][2])
        ELSE endpoint = "prediction" /\ IsJsonNumber(rows[i].amount)
      InFailed(i) == \E k \in 1..Len(results.failed) : results.failed[k].index = Some(i - 1)
      Handled(i) == \/ InFailed(i)
                    \/ \E k \in 1..Len(results.conflicts) : results.conflicts[k].index = i - 1
                    \/ \E w \in written : w.row = i - 1
  IN (/\ pc = "done" /\ ~lock_seen
      /\ response.error \notin {"missing_parameters", "no_override_permission"}
      /\ \E i \in 1..Len(rows) : Raises(i)) =>
       /\ response.results
       /\ \A i \in 1..Len(rows) : IF Raises(i) THEN InFailed(i) ELSE Handled(i)

\* C23: a step of an import call that records a validation failure of a row
\* is taken before the call has written anything: validation of the whole
\* batch is finished before the first write.
C23_ValidationBeforeFirstWrite ==
  [][\A k \in 1..Len(results'.failed) :
       (/\ k > Len(results.failed)
        /\ results'.failed[k].reason \in
             {"EMPTY_DATE_MSG", "INVALID_FORMAT_MSG", "INVALID_YEAR_MSG", "INVALID_MONTH_MSG",
              "date_invalid", "field_format", "required_field_empty", "unknown_department",
              "amount_format", "amount_negative", "invalid_number", "negative",
              "not_a_non_negative_integer", "missing_manifest_number", "missing_fields",
              "value_error"}) =>
         written = {}]_vars


\* C24: a row reported as a conflict passed field validation: no entry of
\* results.conflicts of the monthly or the hospital import belongs to a row
\* whose amount is not a number (or, for the hospital import, is empty).
C24_ConflictsPassedValidation ==
  endpoint \in {"management", "prediction"} =>
    \A k \in 1..Len(results.conflicts) :
      LET row == rows[results.conflicts[k].index + 1]
          value == PyStr(row.amount)
      IN /\ value # "" => IsNumeric(value)
         /\ endpoint = "prediction" => value # ""


C26_ExponentialBackoff ==
  [][retry_count' = retry_count + 1 => slept' = 200 * (2 ^ (retry_count' - 1))]_vars


\* C27: whenever an import call has returned its results, the tallies add up
\* to the number of submitted rows:
\* results.success + len(results.failed) + len(results.conflicts) = results.total.
C27_TalliesAddUp ==
  (pc = "done" /\ response.results) =>
    results.success + Len(results.failed) + Len(results.conflicts) = results.total


\* C28: a step of an import call made with override_conflicts = false keeps
\* every stored record as it is: it replaces, modifies and deletes no record,
\* also when the key was committed by another call after this call's preload
\* and when the batch carries the key twice.  (A step of the call itself
\* moves pc, results or written; a commit of the other call moves db only.)
C28_NoOverrideNoReplace ==
  [][(/\ ~override_conflicts
      /\ pc' # pc \/ results' # results \/ written' # written) =>
       \A t \in {"monthly", "waste_record", "hospital", "manifest", "declaration"} :
         db[t] \subseteq db'[t]]_vars


\* --------------------------------------------------- lookup dicts of one call
\* Manifest rows of two enterprises: M1 of E1, M1 again of E2, and M2 of E2.
LookupRows ==
  {[manifest_number |-> "M1", enterprise_code |-> "E1", declaration_date |-> "d1",
    weight |-> "5"],
   [manifest_number |-> "M1", enterprise_code |-> "E2", declaration_date |-> "d1",
    weight |-> "5"],
   [manifest_number |-> "M2", enterprise_code |-> "E2", declaration_date |-> "d1",
    weight |-> "5"]}

\* One admitted manifest import of one to MaxRows + 1 rows, so that a row
\* can follow a row that failed after an earlier row was written.
InitLookup ==
  /\ endpoint = "transportation"
  /\ db \in {EmptyDb, StoredOnce("transportation")}
  /\ db0 = db
  /\ pc = "admitted"
  /\ rows \in UNION {[1..n -> LookupRows] : n \in 1..(MaxRows + 1)}
  /\ override_conflicts \in BOOLEAN
  /\ results = NoResults
  /\ response = NoResponse
  /\ rows_to_create = <<>>
  /\ rows_to_update = <<>>
  /\ rows_to_process = <<>>
  /\ cursor = 0
  /\ retry_count = 0 /\ slept = 0
  /\ lock_plan = 0
  /\ bulk_error = "none"
  /\ cur = NoRow
  /\ written = {}
  /\ override_authorized = FALSE
  /\ lock_seen = FALSE
  /\ enterprises = {}
  /\ rerun = FALSE
  /\ first_ok = FALSE
  /\ read_error = FALSE

NextLookup ==
  \/ TransportBatchImport
  \/ TransportAttempt
  \/ Finish

SpecLookup == InitLookup /\ [][NextLookup]_vars

\* C29: in the manifest import every enterprise held in the per-call lookup
\* dict is a committed record of the enterprise table whenever a row's write
\* attempt starts, also after an earlier transaction was rolled back.
C29_LookupObjectsCommitted ==
  (endpoint = "transportation" /\ pc = "create" /\ cursor < Len(rows_to_process)) =>
    enterprises \subseteq db.enterprise


\* ------------------------------------------------- admission and override
\* One request from the decorator to the end of the view's classification
\* pass, on empty tables.
InitAdmit == Init /\ endpoint # "processor"

NextAdmit ==
  \/ PermissionRequired
  \/ MgmtBatchImport
  \/ DeptBatchImport
  \/ HospBatchImport
  \/ TransportBatchImport

SpecAdmit == InitAdmit /\ [][NextAdmit]_vars

\* C30 (as stated): the "no override permission" rejection is never returned
\* to a caller whom the decorator admitted.
C30_NeverRejected ==
  ~(pc = "done" /\ rows # <<>> /\ override_conflicts /\ ~override_authorized
    /\ response.error = "no_override_permission")

\* C30 (amended): for every combination of group memberships, a user whom
\* the permission_required check of the behaviour's endpoint admits is
\* granted override by has_override_permission for the endpoint's module, as
\* long as both checks read the same memberships.
C30_AdmittedImpliesOverride ==
  endpoint # "processor" =>
    \A groups \in SUBSET (DOMAIN GROUP_HIERARCHY \cup {"guest"}) :
      LET user == [is_authenticated |-> TRUE, groups |-> groups]
      IN get_permission_hi(user) >= GROUP_HIERARCHY[MinGroup(endpoint)] =>
           has_override_permission(user, OverrideModule(endpoint))

\* an admitted caller asked for override, was granted it, and the view went
\* on to its write phase
C30_Witness ==
  /\ pc = "create" /\ override_conflicts /\ override_authorized
  /\ results.total > 0 /\ ~response.sent

====
